---- MODULE Spec2Model ----
(***************************************************************************)
(* Cost-estimation dashboard (rs691/cost-optimizer-demo).                  *)
(*                                                                         *)
(* Two variants of the same React component are modelled, selected by the  *)
(* variable `variant`: src/src/App.tsx ("App") and src/unnamed/part_000    *)
(* ("part_000").  A state of the model is the component state after a      *)
(* render has settled: the useState cells, the values cached by the        *)
(* useMemo hooks, the pending timers of the App variant, and the           *)
(* module-level data (partsCatalog, pricingCatalog, previousPageValue).    *)
(*                                                                         *)
(* Strings are sequences of one-character strings, so that toLowerCase,    *)
(* trim, includes and parseInt are computed character by character.        *)
(* Money is an integer number of 1/10000 dollars: a basePrice is held in   *)
(* cents and a multiplier in hundredths, so adjustedPrice = basePrice *    *)
(* multiplier is exact (472.50 dollars = 4725000).  The floating-point     *)
(* rounding of the JavaScript numbers is not modelled.                     *)
(***************************************************************************)
EXTENDS Integers, Sequences, FiniteSets, TLC

VARIABLES
    variant,             \* "App" | "part_000": which source file runs
    searchTerm,          \* useState<string>
    quantityInput,       \* e.target.value of the last quantity event
    globalQuantity,      \* useState<number>
    usePrevData,         \* useState<boolean>: apply the setup fee
    selectedCategories,  \* useState<string[]>
    selectedIsAll,       \* selectedCategories is the allCategories array itself
    categoriesToFilter,  \* useMemo
    categoriesIsAll,     \* categoriesToFilter is the allCategories array itself
    globalQty,           \* useMemo
    filteredResults,     \* useMemo
    totalProjectCost,    \* useMemo
    isPulsing,           \* useState<boolean> (App variant only)
    timers,              \* pending setTimeout callbacks (App variant only)
    pulseTriggered,      \* the last render ran setIsPulsing(true) (App only)
    moduleData,          \* the module-level partsCatalog, pricingCatalog and
                         \* previousPageValue the component closes over
    formatted,           \* the last call of formatCurrency followed on its
                         \* own: its argument and the string it returned
    twin                 \* the useMemo values of the part_000 component run
                         \* side by side on the same events (SpecPair)

vars == << variant, searchTerm, quantityInput, globalQuantity, usePrevData,
           selectedCategories, selectedIsAll, categoriesToFilter,
           categoriesIsAll, globalQty, filteredResults, totalProjectCost,
           isPulsing, timers, pulseTriggered, moduleData, formatted, twin >>

Variants == {"App", "part_000"}

(***************************************************************************)
(* Strings                                                                 *)
(***************************************************************************)
UpperLetters ==
  <<"A","B","C","D","E","F","G","H","I","J","K","L","M",
    "N","O","P","Q","R","S","T","U","V","W","X","Y","Z">>

LowerLetters ==
  <<"a","b","c","d","e","f","g","h","i","j","k","l","m",
    "n","o","p","q","r","s","t","u","v","w","x","y","z">>

Digits == <<"0","1","2","3","4","5","6","7","8","9">>

WhiteSpace == {" ", "\t"}

\* the place of each letter in the alphabet
upperIndex == [c \in {UpperLetters[i] : i \in DOMAIN UpperLetters} |->
                 CHOOSE i \in DOMAIN UpperLetters : UpperLetters[i] = c]

\* One character of String.prototype.toLowerCase
toLowerChar(c) ==
  IF c \in DOMAIN upperIndex THEN LowerLetters[upperIndex[c]] ELSE c

\* String.prototype.toLowerCase
toLowerCase(s) == [i \in DOMAIN s |-> toLowerChar(s[i])]

\* String.prototype.trim: drop the leading and the trailing white space
trim(s) ==
  LET keep == {i \in DOMAIN s : s[i] \notin WhiteSpace}
  IN  IF keep = {} THEN << >>
      ELSE LET first == CHOOSE i \in keep : \A j \in keep : i <= j
               last  == CHOOSE i \in keep : \A j \in keep : j <= i
           IN  SubSeq(s, first, last)

\* String.prototype.includes
includes(s, t) ==
  \E i \in 1..(Len(s) - Len(t) + 1) : SubSeq(s, i, i + Len(t) - 1) = t

\* Array.prototype.includes
arrayIncludes(a, x) == \E i \in DOMAIN a : a[i] = x

(***************************************************************************)
(* Data sources                                                            *)
(***************************************************************************)
\* partsCatalog of src/src/App.tsx; a basePrice is held in cents
partsCatalogApp ==
  << 
     [id |-> <<"C","P","U","-","0","0","1">>,
      name |-> <<"H","i","g","h","-","P","e","r","f","o","r","m","a","n","c","e"," ","P","r","o","c","e","s","s","o","r"," ","(","i","9",")">>,
      category |-> <<"P","r","o","c","e","s","s","o","r">>,
      basePrice |-> 45000],
     [id |-> <<"C","P","U","-","0","0","2">>,
      name |-> <<"M","i","d","-","R","a","n","g","e"," ","P","r","o","c","e","s","s","o","r"," ","(","i","5",")">>,
      category |-> <<"P","r","o","c","e","s","s","o","r">>,
      basePrice |-> 21000],
     [id |-> <<"M","E","M","-","0","0","3">>,
      name |-> <<"3","2","G","B"," ","D","D","R","5"," ","R","A","M"," ","M","o","d","u","l","e">>,
      category |-> <<"M","e","m","o","r","y">>,
      basePrice |-> 12050],
     [id |-> <<"M","E","M","-","0","0","4">>,
      name |-> <<"1","6","G","B"," ","D","D","R","4"," ","R","A","M"," ","M","o","d","u","l","e">>,
      category |-> <<"M","e","m","o","r","y">>,
      basePrice |-> 5500],
     [id |-> <<"S","T","R","-","0","0","5">>,
      name |-> <<"1","T","B"," ","N","V","M","e"," ","S","S","D">>,
      category |-> <<"S","t","o","r","a","g","e">>,
      basePrice |-> 8500],
     [id |-> <<"S","T","R","-","0","0","6">>,
      name |-> <<"4","T","B"," ","H","D","D"," ","S","t","o","r","a","g","e">>,
      category |-> <<"S","t","o","r","a","g","e">>,
      basePrice |-> 6500],
     [id |-> <<"N","E","T","-","0","0","7">>,
      name |-> <<"1","0","G"," ","E","t","h","e","r","n","e","t"," ","C","a","r","d">>,
      category |-> <<"N","e","t","w","o","r","k">>,
      basePrice |-> 11500],
     [id |-> <<"P","W","R","-","0","0","8">>,
      name |-> <<"7","5","0","W"," ","P","l","a","t","i","n","u","m"," ","P","S","U">>,
      category |-> <<"P","o","w","e","r"," ","S","u","p","p","l","y">>,
      basePrice |-> 15500],
     [id |-> <<"P","W","R","-","0","0","9">>,
      name |-> <<"8","5","0","W"," ","G","o","l","d"," ","P","S","U">>,
      category |-> <<"P","o","w","e","r"," ","S","u","p","p","l","y">>,
      basePrice |-> 17500],
     [id |-> <<"N","E","T","-","0","1","0">>,
      name |-> <<"5","G"," ","W","i","F","i"," ","A","d","a","p","t","e","r">>,
      category |-> <<"N","e","t","w","o","r","k">>,
      basePrice |-> 4500],
     [id |-> <<"S","T","R","-","0","1","1">>,
      name |-> <<"5","1","2","G","B"," ","S","A","T","A"," ","S","S","D">>,
      category |-> <<"S","t","o","r","a","g","e">>,
      basePrice |-> 6000] >>

\* partsCatalog of src/unnamed/part_000; a basePrice is held in cents
partsCatalogPart000 ==
  << 
     [id |-> <<"C","P","U","-","0","0","1">>,
      name |-> <<"H","i","g","h","-","P","e","r","f","o","r","m","a","n","c","e"," ","P","r","o","c","e","s","s","o","r"," ","(","i","9",")">>,
      category |-> <<"P","r","o","c","e","s","s","o","r">>,
      basePrice |-> 45000],
     [id |-> <<"C","P","U","-","0","0","2">>,
      name |-> <<"M","i","d","-","R","a","n","g","e"," ","P","r","o","c","e","s","s","o","r"," ","(","i","5",")">>,
      category |-> <<"P","r","o","c","e","s","s","o","r">>,
      basePrice |-> 21000],
     [id |-> <<"M","E","M","-","0","0","3">>,
      name |-> <<"3","2","G","B"," ","D","D","R","5"," ","R","A","M"," ","M","o","d","u","l","e">>,
      category |-> <<"M","e","m","o","r","y">>,
      basePrice |-> 12050],
     [id |-> <<"M","E","M","-","0","0","4">>,
      name |-> <<"1","6","G","B"," ","D","D","R","4"," ","R","A","M"," ","M","o","d","u","l","e">>,
      category |-> <<"M","e","m","o","r","y">>,
      basePrice |-> 5500],
     [id |-> <<"S","T","R","-","0","0","5">>,
      name |-> <<"1","T","B"," ","N","V","M","e"," ","S","S","D">>,
      category |-> <<"S","t","o","r","a","g","e">>,
      basePrice |-> 8500],
     [id |-> <<"S","T","R","-","0","0","6">>,
      name |-> <<"4","T","B"," ","H","D","D"," ","S","t","o","r","a","g","e">>,
      category |-> <<"S","t","o","r","a","g","e">>,
      basePrice |-> 6500],
     [id |-> <<"N","E","T","-","0","0","7">>,
      name |-> <<"1","0","G"," ","E","t","h","e","r","n","e","t"," ","C","a","r","d">>,
      category |-> <<"N","e","t","w","o","r","k">>,
      basePrice |-> 11500],
     [id |-> <<"P","W","R","-","0","0","8">>,
      name |-> <<"7","5","0","W"," ","P","l","a","t","i","n","u","m"," ","P","S","U">>,
      category |-> <<"P","o","w","e","r"," ","S","u","p","p","l","y">>,
      basePrice |-> 15500],
     [id |-> <<"P","W","R","-","0","0","9">>,
      name |-> <<"5","0","0","W"," ","G","o","l","d"," ","P","S","U">>,
      category |-> <<"P","o","w","e","r"," ","S","u","p","p","l","y">>,
      basePrice |-> 9500],
     [id |-> <<"N","E","T","-","0","1","0">>,
      name |-> <<"1","G"," ","E","t","h","e","r","n","e","t"," ","C","a","r","d">>,
      category |-> <<"N","e","t","w","o","r","k">>,
      basePrice |-> 4500],
     [id |-> <<"S","T","R","-","0","1","1">>,
      name |-> <<"5","1","2","G","B"," ","S","A","T","A"," ","S","S","D">>,
      category |-> <<"S","t","o","r","a","g","e">>,
      basePrice |-> 5500],
     [id |-> <<"M","E","M","-","0","1","2">>,
      name |-> <<"6","4","G","B"," ","D","D","R","5"," ","R","A","M"," ","M","o","d","u","l","e">>,
      category |-> <<"M","e","m","o","r","y">>,
      basePrice |-> 23000] >>

partsCatalog(v) == IF v = "App" THEN partsCatalogApp ELSE partsCatalogPart000

Processor   == <<"P","r","o","c","e","s","s","o","r">>
Memory      == <<"M","e","m","o","r","y">>
Storage     == <<"S","t","o","r","a","g","e">>
Network     == <<"N","e","t","w","o","r","k">>
PowerSupply == <<"P","o","w","e","r"," ","S","u","p","p","l","y">>

\* Record<string, PricingRule>; a multiplier is held in hundredths
pricingCatalog ==
  << [category |-> Processor,   region |-> "US-West",    multiplier |-> 105],
     [category |-> Memory,      region |-> "EU-Central", multiplier |-> 98],
     [category |-> Storage,     region |-> "Asia-Pac",   multiplier |-> 110],
     [category |-> Network,     region |-> "Global",     multiplier |-> 100],
     [category |-> PowerSupply, region |-> "Global",     multiplier |-> 100] >>

\* The fallback rule { multiplier: 1.0 }
defaultMultiplier == 100

\* Mock setup fee, 500.00 dollars
previousPageValue == 5000000


RECURSIVE dedupe(_, _)
\* Array.from(new Set(xs)): the first occurrence of each element, in order
dedupe(xs, seen) ==
  IF xs = << >> THEN << >>
  ELSE IF Head(xs) \in seen THEN dedupe(Tail(xs), seen)
       ELSE << Head(xs) >> \o dedupe(Tail(xs), seen \cup {Head(xs)})

\* useMemo(() => Array.from(new Set(partsCatalog.map(p => p.category))), [])
computeAllCategories(catalog) ==
  dedupe([i \in DOMAIN catalog |-> catalog[i].category], {})

allCategoriesApp == computeAllCategories(partsCatalogApp)

allCategoriesPart000 == computeAllCategories(partsCatalogPart000)

allCategories(v) == IF v = "App" THEN allCategoriesApp ELSE allCategoriesPart000

\* the module-level data as the module's top-level code leaves it
initialModuleData(v) ==
  [partsCatalog      |-> partsCatalog(v),
   pricingCatalog    |-> pricingCatalog,
   previousPageValue |-> previousPageValue]

(***************************************************************************)
(* Quantity input                                                          *)
(***************************************************************************)
NaN == [nan |-> TRUE, val |-> 0]

Number(n) == [nan |-> FALSE, val |-> n]

isDigit(c) == \E i \in DOMAIN Digits : Digits[i] = c

digitValue(c) == (CHOOSE i \in DOMAIN Digits : Digits[i] = c) - 1

RECURSIVE dropLeadingWhiteSpace(_)
dropLeadingWhiteSpace(s) ==
  IF s # << >> /\ Head(s) \in WhiteSpace THEN dropLeadingWhiteSpace(Tail(s))
  ELSE s

RECURSIVE digitPrefix(_)
\* the longest prefix of s made of decimal digits
digitPrefix(s) ==
  IF s # << >> /\ isDigit(Head(s)) THEN << Head(s) >> \o digitPrefix(Tail(s))
  ELSE << >>

RECURSIVE decimalValue(_, _)
decimalValue(ds, acc) ==
  IF ds = << >> THEN acc
  ELSE decimalValue(Tail(ds), acc * 10 + digitValue(Head(ds)))

\* parseInt(string) with no radix, for inputs without a 0x prefix: leading
\* white space, an optional sign, then the longest run of decimal digits;
\* NaN when there is no digit
parseInt(s) ==
  LET t      == dropLeadingWhiteSpace(s)
      signed == t # << >> /\ Head(t) \in {"-", "+"}
      sign   == IF t # << >> /\ Head(t) = "-" THEN -1 ELSE 1
      body   == IF signed THEN Tail(t) ELSE t
      ds     == digitPrefix(body)
  IN  IF ds = << >> THEN NaN ELSE Number(sign * decimalValue(ds, 0))

\* x || 0 on a number: 0 and NaN are falsy
orZero(x) == IF x.nan \/ x.val = 0 THEN 0 ELSE x.val

\* onChange={(e) => setGlobalQuantity(parseInt(e.target.value) || 0)}
coerceQuantity(raw) == orZero(parseInt(raw))

(***************************************************************************)
(* Display formatting.  An amount handed to formatCurrency is held as its  *)
(* sign, its whole dollars and its fraction in 1/10000 dollars, so that    *)
(* amounts of a million dollars and more fit.                              *)
(***************************************************************************)
\* the amount of a money value held in 1/10000 dollars
decimalOf(value) ==
  LET magnitude == IF value < 0 THEN 0 - value ELSE value
  IN  [negative |-> value < 0, whole |-> magnitude \div 10000,
       fraction |-> magnitude % 10000]

RECURSIVE digitsOf(_)
\* the decimal digits of a natural number
digitsOf(n) ==
  IF n < 10 THEN << Digits[n + 1] >>
  ELSE digitsOf(n \div 10) \o << Digits[(n % 10) + 1] >>

\* Number.prototype.toFixed(2): the magnitude rounded to hundredths (a tie
\* goes up), written with two fraction digits after a "-" for a negative
\* amount
toFixed(amount) ==
  LET hundredths == (amount.fraction + 50) \div 100
      whole == IF hundredths = 100 THEN amount.whole + 1 ELSE amount.whole
      cents == IF hundredths = 100 THEN 0 ELSE hundredths
  IN  (IF amount.negative THEN <<"-">> ELSE << >>)
        \o digitsOf(whole) \o <<".">>
        \o << Digits[(cents \div 10) + 1], Digits[(cents % 10) + 1] >>

\* \w at position i of s (a position outside s holds no character)
isWordChar(s, i) ==
  /\ i \in DOMAIN s
  /\ \/ isDigit(s[i])
     \/ \E j \in DOMAIN UpperLetters : UpperLetters[j] = s[i]
     \/ \E j \in DOMAIN LowerLetters : LowerLetters[j] = s[i]
     \/ s[i] = "_"

\* \B between s[i] and s[i+1]
notWordBoundary(s, i) == isWordChar(s, i) <=> isWordChar(s, i + 1)

\* (?=(\d{3})+(?!\d)) after s[i]
groupsOfThreeAhead(s, i) ==
  \E k \in 1..(Len(s) \div 3) :
     /\ i + 3 * k <= Len(s)
     /\ \A j \in (i + 1)..(i + 3 * k) : isDigit(s[j])
     /\ ~(i + 3 * k + 1 \in DOMAIN s /\ isDigit(s[i + 3 * k + 1]))

\* the replacement with \B left out of the pattern
RECURSIVE replaceSeparators_NoBoundary(_, _)
replaceSeparators_NoBoundary(s, i) ==
  IF i > Len(s) THEN << >>
  ELSE (IF groupsOfThreeAhead(s, i) THEN <<",">> ELSE << >>)
         \o (IF i = Len(s) THEN << >> ELSE << s[i + 1] >>)
         \o replaceSeparators_NoBoundary(s, i + 1)

\* .replace(/\B(?=(\d{3})+(?!\d))/g, ","): the characters of s from
\* position i + 1 on, with a comma put at every matching position
RECURSIVE replaceSeparators(_, _)
replaceSeparators(s, i) ==
  IF i > Len(s) THEN << >>
  ELSE (IF notWordBoundary(s, i) /\ groupsOfThreeAhead(s, i) THEN <<",">> ELSE << >>)
         \o (IF i = Len(s) THEN << >> ELSE << s[i + 1] >>)
         \o replaceSeparators(s, i + 1)

\* no call of formatCurrency has been followed yet
notFormatted == [amount |-> decimalOf(0), text |-> << >>]

\* App: `$${...}`; part_000: `${...}`
formatCurrency(v, amount) ==
  (IF v = "App" THEN <<"$">> ELSE << >>) \o replaceSeparators(toFixed(amount), 0)

(***************************************************************************)
(* Derived state: the bodies of the useMemo hooks                          *)
(***************************************************************************)
\* computeCategoriesToFilter with no fallback to allCategories
computeCategoriesToFilter_NoFallback(v, selected) == selected

\* selectedCategories.length > 0 ? selectedCategories : allCategories
computeCategoriesToFilter(v, selected) ==
  IF Len(selected) > 0 THEN selected ELSE allCategories(v)

\* globalQuantity || 0
computeGlobalQty(quantity) == orZero(Number(quantity))

\* normalizeTerm without the trim
normalizeTerm_NoTrim(term) == toLowerCase(term)

\* const term = searchTerm.toLowerCase().trim()
normalizeTerm(term) == trim(toLowerCase(term))

\* every id, name and category of the two catalogs
catalogStrings ==
  UNION { UNION { { c[i].id, c[i].name, c[i].category } : i \in DOMAIN c } :
          c \in {partsCatalogApp, partsCatalogPart000} }

\* toLowerCase of the catalog's strings, evaluated once
lowerCased == [s \in catalogStrings |-> toLowerCase(s)]

\* part.name.toLowerCase(), part.id.toLowerCase(), part.category.toLowerCase()
fieldToLowerCase(s) == IF s \in DOMAIN lowerCased THEN lowerCased[s] ELSE toLowerCase(s)

\* matchesSearch looking at the name and the id only
matchesSearch_NameAndId(part, term) ==
  IF Len(term) > 0
  THEN \/ includes(fieldToLowerCase(part.name), term)
       \/ includes(fieldToLowerCase(part.id), term)
  ELSE TRUE

\* the search half of the filter callback
matchesSearch(part, term) ==
  IF Len(term) > 0
  THEN \/ includes(fieldToLowerCase(part.name), term)
       \/ includes(fieldToLowerCase(part.id), term)
       \/ includes(fieldToLowerCase(part.category), term)
  ELSE TRUE

\* the category predicate letting every part through
matchesCategory_Any(part, categories) == TRUE

\* the category half of the filter callback
matchesCategory(part, categories) == arrayIncludes(categories, part.category)

\* the lookup without the || { multiplier: 1.0 } fallback
liveMultiplier_NoFallback(category) ==
  LET table == moduleData.pricingCatalog
  IN  IF \E i \in DOMAIN table : table[i].category = category
      THEN table[CHOOSE i \in DOMAIN table : table[i].category = category].multiplier
      ELSE 0

\* the lookup answering 1.0 for every category
liveMultiplier_Unit(category) == defaultMultiplier

\* (pricingCatalog[part.category] || { multiplier: 1.0 }).multiplier
liveMultiplier(category) ==
  LET table == moduleData.pricingCatalog
  IN  IF \E i \in DOMAIN table : table[i].category = category
      THEN table[CHOOSE i \in DOMAIN table : table[i].category = category].multiplier
      ELSE defaultMultiplier

\* calculatedPart with the line cost taken from the base price
calculatedPart_BasePriceLine(part, qty) ==
  [id |-> part.id, name |-> part.name, category |-> part.category,
   basePrice |-> part.basePrice,
   adjustedPrice |-> part.basePrice * liveMultiplier(part.category),
   lineCost |-> part.basePrice * 100 * qty,
   calculatedQuantity |-> qty]

\* the map callback: { ...part, adjustedPrice, lineCost, calculatedQuantity }
calculatedPart(part, qty) ==
  LET adjustedPrice == part.basePrice * liveMultiplier(part.category)
  IN  [id |-> part.id, name |-> part.name, category |-> part.category,
       basePrice |-> part.basePrice,
       adjustedPrice |-> adjustedPrice,
       lineCost |-> adjustedPrice * qty,
       calculatedQuantity |-> qty]

\* what the map callback would leave of the catalog if it wrote the three
\* calculated fields into the part itself and returned it
mappedCatalog_InPlace(catalog, rows) ==
  [k \in DOMAIN catalog |->
     IF \E i \in DOMAIN rows : rows[i].id = catalog[k].id
     THEN rows[CHOOSE i \in DOMAIN rows : rows[i].id = catalog[k].id]
     ELSE catalog[k]]

\* what .filter(...).map(part => ({ ...part, ... })) leaves of partsCatalog:
\* filter reads the parts and the spread copies each one into a new object
mappedCatalog(catalog, rows) == catalog

\* computeFilteredResults with || in place of && in the filter callback
computeFilteredResults_EitherPredicate(v, term, qty, categories) ==
  IF qty = 0 THEN << >>
  ELSE LET t == normalizeTerm(term)
           keep(part) == matchesCategory(part, categories) \/ matchesSearch(part, t)
           kept == SelectSeq(moduleData.partsCatalog, keep)
       IN  [i \in DOMAIN kept |-> calculatedPart(kept[i], qty)]

RECURSIVE groupedByCategory(_, _, _)
groupedByCategory(catalog, categories, t) ==
  IF categories = << >> THEN << >>
  ELSE LET keep(part) == part.category = Head(categories) /\ matchesSearch(part, t)
       IN  SelectSeq(catalog, keep) \o groupedByCategory(catalog, Tail(categories), t)

\* computeFilteredResults walking categoriesToFilter and collecting the
\* parts of each category in turn
computeFilteredResults_ByCategory(v, term, qty, categories) ==
  IF qty = 0 THEN << >>
  ELSE LET kept == groupedByCategory(moduleData.partsCatalog, categories, normalizeTerm(term))
       IN  [i \in DOMAIN kept |-> calculatedPart(kept[i], qty)]

\* computeFilteredResults without the globalQty === 0 early return
computeFilteredResults_NoZeroReturn(v, term, qty, categories) ==
  LET t == normalizeTerm(term)
      keep(part) == matchesCategory(part, categories) /\ matchesSearch(part, t)
      kept == SelectSeq(moduleData.partsCatalog, keep)
  IN  [i \in DOMAIN kept |-> calculatedPart(kept[i], qty)]

\* the body of the filteredResults memo
computeFilteredResults(v, term, qty, categories) ==
  IF qty = 0 THEN << >>
  ELSE LET t == normalizeTerm(term)
           keep(part) == matchesCategory(part, categories) /\ matchesSearch(part, t)
           kept == SelectSeq(moduleData.partsCatalog, keep)
       IN  [i \in DOMAIN kept |-> calculatedPart(kept[i], qty)]

RECURSIVE reduceLineCost(_, _)
\* filteredResults.reduce((sum, item) => sum + item.lineCost, 0)
reduceLineCost(items, sum) ==
  IF items = << >> THEN sum
  ELSE reduceLineCost(Tail(items), sum + Head(items).lineCost)

\* the total with the fee added whether or not it is applied
computeTotalProjectCost_FeeAlways(results, fee) ==
  reduceLineCost(results, 0) + moduleData.previousPageValue

\* the value returned by the totalProjectCost memo
computeTotalProjectCost(results, fee) ==
  reduceLineCost(results, 0) + (IF fee THEN moduleData.previousPageValue ELSE 0)

\* the fee row shown whenever the fee is applied
feeRowShown_FeeOnly == usePrevData

\* {usePrevData && filteredResults.length > 0 && (<tr> Project Setup Fee ...)}
\* (part_000)
feeRowShown == usePrevData /\ Len(filteredResults) > 0

\* filteredResults.length === 0 && globalQty !== 0 (part_000)
showNoResultsMessage == Len(filteredResults) = 0 /\ globalQty # 0

\* getNoResultsText without the globalQty === 0 case
getNoResultsText_NoQuantityCase ==
  IF variant = "App"
  THEN "No parts match your current filter and search settings."
  ELSE "No parts match your selected filters and search term."

\* getNoResultsText
getNoResultsText ==
  IF globalQty = 0
  THEN "Please enter a valid quantity (> 0) to proceed with calculation."
  ELSE IF variant = "App"
       THEN "No parts match your current filter and search settings."
       ELSE "No parts match your selected filters and search term."

\* the "No Results Message" block of the JSX: whether it is rendered
messageShown ==
  IF variant = "App" THEN Len(filteredResults) = 0 ELSE showNoResultsMessage

(***************************************************************************)
(* Inputs of the user events                                               *)
(***************************************************************************)
\* the texts typed into the search box
SearchTerms ==
  { << >>,
    <<"z","z","z","-","n","o","-","m","a","t","c","h">>,
    <<" ","S","s","D","\t">>,
    <<"P","R","O","C">> }

\* the texts typed into the quantity box
RawQuantities ==
  { <<"5","0">>,
    <<"1","0">>,
    <<"3",".","7">>,
    <<"0">>,
    <<"-","5">>,
    <<"a","b","c">> }

(***************************************************************************)
(* Rendering: which useMemo hooks recompute                                *)
(***************************************************************************)
\* [selectedCategories, allCategories]
categoriesDepsChanged(selectedChanged) == selectedChanged

\* [globalQuantity]
globalQtyDepsChanged(quantity) == quantity # globalQuantity

\* the dependencies of filteredResults with searchTerm left out
filteredResultsDepsChanged_NoTerm(v, termChanged, qtyChanged, selectedChanged, categoriesChanged) ==
  \/ qtyChanged
  \/ categoriesChanged
  \/ (v = "part_000" /\ selectedChanged)

\* App: [searchTerm, globalQty, categoriesToFilter]
\* part_000: [searchTerm, globalQty, selectedCategories, categoriesToFilter]
filteredResultsDepsChanged(v, termChanged, qtyChanged, selectedChanged, categoriesChanged) ==
  \/ termChanged
  \/ qtyChanged
  \/ categoriesChanged
  \/ (v = "part_000" /\ selectedChanged)

\* totalProjectCostDepsChanged with the App total depending on isPulsing alone
totalProjectCostDepsChanged_AppPulsingOnly(v, resultsChanged, feeChanged, pulsingChanged) ==
  IF v = "App" THEN pulsingChanged ELSE resultsChanged \/ feeChanged

\* totalProjectCostDepsChanged with filteredResults left out of the dependencies
totalProjectCostDepsChanged_NoResults(v, resultsChanged, feeChanged, pulsingChanged) ==
  \/ feeChanged
  \/ (v = "App" /\ pulsingChanged)

\* totalProjectCostDepsChanged with usePrevData left out of the dependencies
totalProjectCostDepsChanged_NoFee(v, resultsChanged, feeChanged, pulsingChanged) ==
  \/ resultsChanged
  \/ (v = "App" /\ pulsingChanged)

\* App: [filteredResults, usePrevData, isPulsing]
\* part_000: [filteredResults, usePrevData]
totalProjectCostDepsChanged(v, resultsChanged, feeChanged, pulsingChanged) ==
  \/ resultsChanged
  \/ feeChanged
  \/ (v = "App" /\ pulsingChanged)

\* no second component is mounted
noTwin == [mounted |-> FALSE]

\* One settled render of the part_000 component mounted side by side: its
\* useState cells take the same values as those of the component itself
\* (the same events reach both), its useMemo values are its own.
twinRender(term, quantity, fee, selected, selIsAll, selectedChanged) ==
  LET v          == "part_000"
      catsRun    == categoriesDepsChanged(selectedChanged)
      newCats    == IF catsRun THEN computeCategoriesToFilter(v, selected)
                    ELSE twin.categoriesToFilter
      newCatsAll == IF catsRun THEN (IF Len(selected) > 0 THEN selIsAll ELSE TRUE)
                    ELSE twin.categoriesIsAll
      catsChanged == catsRun /\ ~(twin.categoriesIsAll /\ newCatsAll)
      newQty     == IF globalQtyDepsChanged(quantity) THEN computeGlobalQty(quantity)
                    ELSE twin.globalQty
      resultsRun == filteredResultsDepsChanged(v, term # searchTerm,
                        newQty # twin.globalQty, selectedChanged, catsChanged)
      newResults == IF resultsRun
                    THEN computeFilteredResults(v, term, newQty, newCats)
                    ELSE twin.filteredResults
      totalRun   == totalProjectCostDepsChanged(v, resultsRun,
                        fee # usePrevData, FALSE)
      newTotal   == IF totalRun THEN computeTotalProjectCost(newResults, fee)
                    ELSE twin.totalProjectCost
  IN  [mounted |-> TRUE,
       categoriesToFilter |-> newCats,
       categoriesIsAll |-> newCatsAll,
       globalQty |-> newQty,
       filteredResults |-> newResults,
       totalProjectCost |-> newTotal]

\* One settled render of the component after its useState cells took the
\* values given.  selectedChanged: selectedCategories is another array than
\* the one of the previous render.  A memo whose dependencies are unchanged
\* keeps its cached value.  In the App variant the totalProjectCost memo
\* calls setIsPulsing(true) and arms a 700 ms timer when it runs with
\* isPulsing false; the render that follows recomputes the same total.
Render(term, quantity, fee, selected, selIsAll, selectedChanged, pulsing, pending) ==
  LET catsRun    == categoriesDepsChanged(selectedChanged)
      newCats    == IF catsRun THEN computeCategoriesToFilter(variant, selected)
                    ELSE categoriesToFilter
      newCatsAll == IF catsRun THEN (IF Len(selected) > 0 THEN selIsAll ELSE TRUE)
                    ELSE categoriesIsAll
      catsChanged == catsRun /\ ~(categoriesIsAll /\ newCatsAll)
      newQty     == IF globalQtyDepsChanged(quantity) THEN computeGlobalQty(quantity)
                    ELSE globalQty
      resultsRun == filteredResultsDepsChanged(variant, term # searchTerm,
                        newQty # globalQty, selectedChanged, catsChanged)
      newResults == IF resultsRun
                    THEN computeFilteredResults(variant, term, newQty, newCats)
                    ELSE filteredResults
      totalRun   == totalProjectCostDepsChanged(variant, resultsRun,
                        fee # usePrevData, pulsing # isPulsing)
      newTotal   == IF totalRun THEN computeTotalProjectCost(newResults, fee)
                    ELSE totalProjectCost
      pulse      == variant = "App" /\ totalRun /\ ~pulsing
      newCatalog == IF resultsRun
                    THEN mappedCatalog(moduleData.partsCatalog, newResults)
                    ELSE moduleData.partsCatalog
  IN  /\ searchTerm' = term
      /\ globalQuantity' = quantity
      /\ usePrevData' = fee
      /\ selectedCategories' = selected
      /\ selectedIsAll' = selIsAll
      /\ categoriesToFilter' = newCats
      /\ categoriesIsAll' = newCatsAll
      /\ globalQty' = newQty
      /\ filteredResults' = newResults
      /\ totalProjectCost' = newTotal
      /\ isPulsing' = (IF pulse THEN TRUE ELSE pulsing)
      /\ timers' = (IF pulse THEN pending + 1 ELSE pending)
      /\ pulseTriggered' = pulse
      /\ variant' = variant
      /\ moduleData' = [moduleData EXCEPT !.partsCatalog = newCatalog]
      /\ formatted' = formatted
      /\ twin' = (IF twin.mounted
                  THEN twinRender(term, quantity, fee, selected, selIsAll,
                                  selectedChanged)
                  ELSE twin)

(***************************************************************************)
(* The state after the component has mounted                               *)
(***************************************************************************)
Init ==
  /\ variant \in Variants
  /\ moduleData = initialModuleData(variant)
  /\ searchTerm = << >>
  /\ quantityInput = <<"5","0">>
  /\ globalQuantity = 50
  /\ usePrevData = TRUE
  /\ selectedCategories = allCategories(variant)
  /\ selectedIsAll = TRUE
  /\ categoriesToFilter = computeCategoriesToFilter(variant, selectedCategories)
  /\ categoriesIsAll = TRUE
  /\ globalQty = computeGlobalQty(globalQuantity)
  /\ filteredResults =
       computeFilteredResults(variant, searchTerm, globalQty, categoriesToFilter)
  /\ totalProjectCost = computeTotalProjectCost(filteredResults, usePrevData)
  /\ isPulsing = (variant = "App")
  /\ timers = (IF variant = "App" THEN 1 ELSE 0)
  /\ pulseTriggered = (variant = "App")
  /\ formatted = notFormatted
  /\ twin = noTwin

(***************************************************************************)
(* User events and the timer                                               *)
(***************************************************************************)
\* onChange={(e) => setSearchTerm(e.target.value)}
setSearchTerm(value) ==
  /\ Render(value, globalQuantity, usePrevData, selectedCategories,
            selectedIsAll, FALSE, isPulsing, timers)
  /\ UNCHANGED quantityInput

\* onChange={(e) => setGlobalQuantity(parseInt(e.target.value) || 0)}
setGlobalQuantity(value) ==
  /\ quantityInput' = value
  /\ Render(searchTerm, coerceQuantity(value), usePrevData, selectedCategories,
            selectedIsAll, FALSE, isPulsing, timers)

\* onChange={(e) => setUsePrevData(e.target.checked)}: a click on the
\* controlled checkbox reports the opposite of what it shows
setUsePrevData ==
  /\ Render(searchTerm, globalQuantity, ~usePrevData, selectedCategories,
            selectedIsAll, FALSE, isPulsing, timers)
  /\ UNCHANGED quantityInput

\* the updater appending the category whether or not prev holds it
toggledCategories_AlwaysAppend(prev, category) == Append(prev, category)

\* prev.includes(category) ? prev.filter(c => c !== category) : [...prev, category]
toggledCategories(prev, category) ==
  IF arrayIncludes(prev, category)
  THEN LET other(c) == c # category IN SelectSeq(prev, other)
  ELSE Append(prev, category)

handleCategoryChange(category) ==
  /\ Render(searchTerm, globalQuantity, usePrevData,
            toggledCategories(selectedCategories, category),
            FALSE, TRUE, isPulsing, timers)
  /\ UNCHANGED quantityInput

\* checked={selectedCategories.length === allCategories.length}
selectAllChecked == Len(selectedCategories) = Len(allCategories(variant))

\* a click on the controlled "Select All" checkbox reports the opposite of
\* what it shows: allCategories itself when checked, a new [] otherwise
toggleAllCategories ==
  /\ IF ~selectAllChecked
     THEN Render(searchTerm, globalQuantity, usePrevData,
                 allCategories(variant), TRUE, ~selectedIsAll, isPulsing, timers)
     ELSE Render(searchTerm, globalQuantity, usePrevData,
                 << >>, FALSE, TRUE, isPulsing, timers)
  /\ UNCHANGED quantityInput

\* setTimeout(() => setIsPulsing(false), 700) fires
timerFires ==
  /\ timers > 0
  /\ Render(searchTerm, globalQuantity, usePrevData, selectedCategories,
            selectedIsAll, FALSE, FALSE, timers - 1)
  /\ UNCHANGED quantityInput

Next ==
  \/ \E value \in SearchTerms : setSearchTerm(value)
  \/ \E value \in RawQuantities : setGlobalQuantity(value)
  \/ setUsePrevData
  \/ \E i \in DOMAIN allCategories(variant) :
       handleCategoryChange(allCategories(variant)[i])
  \/ toggleAllCategories
  \/ timerFires

Spec == Init /\ [][Next]_vars

(***************************************************************************)
(* SpecSearch: the filter over generated search terms.  The user has typed *)
(* one term, a case variation of a piece of a catalog field of at most     *)
(* MaxTermLen characters or of a whole field, and then works the quantity  *)
(* box and the category checkboxes.                                        *)
(***************************************************************************)
MaxTermLen == 2

lowerIndex == [c \in {LowerLetters[i] : i \in DOMAIN LowerLetters} |->
                 CHOOSE i \in DOMAIN LowerLetters : LowerLetters[i] = c]

toUpperChar(c) ==
  IF c \in DOMAIN lowerIndex THEN UpperLetters[lowerIndex[c]] ELSE c

toUpperCase(s) == [i \in DOMAIN s |-> toUpperChar(s[i])]

\* upper case at the odd places, lower case at the even ones
alternateCase(s) ==
  [i \in DOMAIN s |-> IF i % 2 = 1 THEN toUpperChar(s[i]) ELSE toLowerChar(s[i])]

caseVariations(s) == { s, toLowerCase(s), toUpperCase(s), alternateCase(s) }

fieldsOf(v) ==
  UNION { { partsCatalog(v)[i].id, partsCatalog(v)[i].name,
            partsCatalog(v)[i].category } : i \in DOMAIN partsCatalog(v) }

piecesOf(s) ==
  UNION { { SubSeq(s, i, i + n - 1) : i \in 1..(Len(s) - n + 1) } :
            n \in 1..MaxTermLen } \cup { s }

computeGeneratedTerms(v) ==
  UNION { caseVariations(t) : t \in UNION { piecesOf(f) : f \in fieldsOf(v) } }
    \cup { << >>, <<" ","\t">> }

generatedTermsApp == computeGeneratedTerms("App")

generatedTermsPart000 == computeGeneratedTerms("part_000")

GeneratedTerms(v) == IF v = "App" THEN generatedTermsApp ELSE generatedTermsPart000

SearchRawQuantities == { <<"0">> }

SearchCategories == { Memory, Storage }

\* the state after the component has mounted and the term has been typed
SearchInit ==
  /\ variant \in Variants
  /\ moduleData = initialModuleData(variant)
  /\ searchTerm \in GeneratedTerms(variant)
  /\ quantityInput = <<"5","0">>
  /\ globalQuantity = 50
  /\ usePrevData = TRUE
  /\ selectedCategories = allCategories(variant)
  /\ selectedIsAll = TRUE
  /\ categoriesToFilter = computeCategoriesToFilter(variant, selectedCategories)
  /\ categoriesIsAll = TRUE
  /\ globalQty = computeGlobalQty(globalQuantity)
  /\ filteredResults =
       computeFilteredResults(variant, searchTerm, globalQty, categoriesToFilter)
  /\ totalProjectCost = computeTotalProjectCost(filteredResults, usePrevData)
  /\ isPulsing = (variant = "App")
  /\ timers = (IF variant = "App" THEN 1 ELSE 0)
  /\ pulseTriggered = (variant = "App")
  /\ formatted = notFormatted
  /\ twin = noTwin

SearchNext ==
  \/ \E value \in SearchRawQuantities : setGlobalQuantity(value)
  \/ \E category \in SearchCategories : handleCategoryChange(category)
  \/ toggleAllCategories
  \/ timerFires

SpecSearch == SearchInit /\ [][SearchNext]_vars

(***************************************************************************)
(* SpecPricing: the pricing lookup over pricing tables other than the one  *)
(* in the source.  The module is loaded with a table in which rules are    *)
(* missing or carry other region labels, and the user then works the       *)
(* quantity box, the fee switch and the category checkboxes.               *)
(***************************************************************************)
\* the table without the rule of one category
withoutRule(table, category) ==
  LET other(rule) == rule.category # category
  IN  SelectSeq(table, other)

\* the table with every rule carrying the same region label
relabelled(table, region) ==
  [i \in DOMAIN table |-> [table[i] EXCEPT !.region = region]]

PricingTables ==
  LET missing == { withoutRule(pricingCatalog, c) : c \in {Processor, Memory, Network} }
      tables  == {pricingCatalog, << >>} \cup missing
  IN  tables \cup { relabelled(t, "Global") : t \in tables }

PricingRawQuantities == { <<"1","0">>, <<"0">> }

PricingCategories == {Processor, Memory}

PricingInit ==
  /\ variant \in Variants
  /\ \E table \in PricingTables :
       moduleData = [initialModuleData(variant) EXCEPT !.pricingCatalog = table]
  /\ searchTerm = << >>
  /\ quantityInput = <<"5","0">>
  /\ globalQuantity = 50
  /\ usePrevData = TRUE
  /\ selectedCategories = allCategories(variant)
  /\ selectedIsAll = TRUE
  /\ categoriesToFilter = computeCategoriesToFilter(variant, selectedCategories)
  /\ categoriesIsAll = TRUE
  /\ globalQty = computeGlobalQty(globalQuantity)
  /\ filteredResults =
       computeFilteredResults(variant, searchTerm, globalQty, categoriesToFilter)
  /\ totalProjectCost = computeTotalProjectCost(filteredResults, usePrevData)
  /\ isPulsing = (variant = "App")
  /\ timers = (IF variant = "App" THEN 1 ELSE 0)
  /\ pulseTriggered = (variant = "App")
  /\ formatted = notFormatted
  /\ twin = noTwin

PricingNext ==
  \/ \E value \in PricingRawQuantities : setGlobalQuantity(value)
  \/ setUsePrevData
  \/ \E category \in PricingCategories : handleCategoryChange(category)
  \/ timerFires

SpecPricing == PricingInit /\ [][PricingNext]_vars

(***************************************************************************)
(* SpecPulse: the pulse of the total card.  The user works the quantity    *)
(* box, the fee switch and two category checkboxes, and every scheduled    *)
(* timer fires in the end.                                                 *)
(***************************************************************************)
PulseRawQuantities == { <<"1","0">>, <<"0">> }

PulseCategories == {Memory, Storage}

\* an input event of the user
userEvent ==
  \/ \E value \in PulseRawQuantities : setGlobalQuantity(value)
  \/ setUsePrevData
  \/ \E category \in PulseCategories : handleCategoryChange(category)

PulseNext ==
  \/ userEvent
  \/ timerFires

SpecPulse == Init /\ [][PulseNext]_vars /\ WF_vars(timerFires)

(***************************************************************************)
(* SpecPair: the two source files side by side.  The component of App.tsx  *)
(* and the component of part_000 are mounted over the same module data     *)
(* (the catalog of either file) and receive the same events.               *)
(***************************************************************************)
PairSearchTerms == { << >>, <<"P","R","O","C">>, <<" ","S","s","D","\t">> }

PairRawQuantities == { <<"1","0">>, <<"0">>, <<"-","5">> }

PairCategories == {Memory, Storage}

PairInit ==
  /\ variant = "App"
  /\ \E v \in Variants : moduleData = initialModuleData(v)
  /\ searchTerm = << >>
  /\ quantityInput = <<"5","0">>
  /\ globalQuantity = 50
  /\ usePrevData = TRUE
  /\ selectedCategories = allCategories(variant)
  /\ selectedIsAll = TRUE
  /\ categoriesToFilter = computeCategoriesToFilter(variant, selectedCategories)
  /\ categoriesIsAll = TRUE
  /\ globalQty = computeGlobalQty(globalQuantity)
  /\ filteredResults =
       computeFilteredResults(variant, searchTerm, globalQty, categoriesToFilter)
  /\ totalProjectCost = computeTotalProjectCost(filteredResults, usePrevData)
  /\ isPulsing = TRUE
  /\ timers = 1
  /\ pulseTriggered = TRUE
  /\ formatted = notFormatted
  /\ twin = [mounted |-> TRUE,
             categoriesToFilter |->
               computeCategoriesToFilter("part_000", selectedCategories),
             categoriesIsAll |-> TRUE,
             globalQty |-> computeGlobalQty(globalQuantity),
             filteredResults |->
               computeFilteredResults("part_000", searchTerm,
                  computeGlobalQty(globalQuantity),
                  computeCategoriesToFilter("part_000", selectedCategories)),
             totalProjectCost |->
               computeTotalProjectCost(
                  computeFilteredResults("part_000", searchTerm,
                     computeGlobalQty(globalQuantity),
                     computeCategoriesToFilter("part_000", selectedCategories)),
                  usePrevData)]

PairNext ==
  \/ \E value \in PairSearchTerms : setSearchTerm(value)
  \/ \E value \in PairRawQuantities : setGlobalQuantity(value)
  \/ setUsePrevData
  \/ \E category \in PairCategories : handleCategoryChange(category)
  \/ toggleAllCategories
  \/ timerFires

SpecPair == PairInit /\ [][PairNext]_vars

(***************************************************************************)
(* SpecFormat: formatCurrency on its own.  The mounted component formats   *)
(* one amount after another; the amounts cover whole dollars of one to     *)
(* seven digits, fractions that round down, round up and carry into the    *)
(* whole dollars, and negative amounts.                                    *)
(***************************************************************************)
FormatWholes == {0, 7, 55, 472, 999, 1000, 23625, 99999, 999999, 1000000, 1234567}

FormatFractions == {0, 1, 49, 51, 900, 1250, 5000, 9949, 9951, 9999}

FormatAmounts ==
  [negative : BOOLEAN, whole : FormatWholes, fraction : FormatFractions]

\* a cell of the page renders {formatCurrency(amount)}
formatCurrencyCall(amount) ==
  /\ formatted' = [amount |-> amount, text |-> formatCurrency(variant, amount)]
  /\ UNCHANGED << variant, searchTerm, quantityInput, globalQuantity,
                  usePrevData, selectedCategories, selectedIsAll,
                  categoriesToFilter, categoriesIsAll, globalQty,
                  filteredResults, totalProjectCost, isPulsing, timers,
                  pulseTriggered, moduleData, twin >>

FormatNext == \E amount \in FormatAmounts : formatCurrencyCall(amount)

SpecFormat == Init /\ [][FormatNext]_vars

(***************************************************************************)
(* Properties                                                              *)
(***************************************************************************)
Range(f) == {f[i] : i \in DOMAIN f}

setupFee == IF usePrevData THEN previousPageValue ELSE 0

QuantityZeroText == "Please enter a valid quantity (> 0) to proceed with calculation."

RECURSIVE lineCostSum(_)
lineCostSum(rows) ==
  IF rows = << >> THEN 0
  ELSE lineCostSum(SubSeq(rows, 1, Len(rows) - 1)) + rows[Len(rows)].lineCost

\* C1 (quantity-zero invariant): whenever the effective quantity is 0,
\* filteredResults is the empty sequence and totalProjectCost is the setup
\* fee (500.00) if the fee is applied and 0 otherwise, whatever the search
\* term and the category selection are.
C1_QuantityZero ==
  globalQty = 0 =>
    /\ filteredResults = << >>
    /\ totalProjectCost = (IF usePrevData THEN 5000000 ELSE 0)

\* C1 witness: quantity 0 was typed while a search term that matches parts
\* and a partial category selection are in force, with the fee applied.
C1_Witness ==
  /\ globalQty = 0
  /\ quantityInput = <<"0">>
  /\ searchTerm = <<"P","R","O","C">>
  /\ Len(selectedCategories) = 2
  /\ usePrevData
  /\ filteredResults = << >>
  /\ totalProjectCost = 5000000

\* C2 (summation identity): in every state totalProjectCost is the sum of
\* lineCost over exactly the rows of filteredResults, plus the setup fee
\* amount if usePrevData is true and plus 0 otherwise.
C2_SummationIdentity ==
  totalProjectCost = lineCostSum(filteredResults) + setupFee

\* C2 witness: the fee was switched off while several rows are listed.
C2_Witness ==
  /\ ~usePrevData
  /\ Len(filteredResults) >= 2
  /\ globalQty = 10
  /\ totalProjectCost = lineCostSum(filteredResults)
  /\ totalProjectCost > 0

\* C3 (quantity coercion): the quantity stored by the quantity-input handler
\* and used by the pipeline is an integer >= 0; a non-numeric input and a
\* negative input coerce to 0, and a decimal input is truncated toward zero.
C3_QuantityCoercion ==
  /\ globalQuantity \in Nat
  /\ globalQty \in Nat
  /\ quantityInput \in {<<"-","5">>, <<"a","b","c">>} => globalQuantity = 0
  /\ quantityInput = <<"3",".","7">> => globalQuantity = 3

\* C4 (scenario 2): when the raw quantity input is "-5" or "abc", the
\* coerced quantity is 0, filteredResults is empty whatever the search term
\* and the category selection are, and the message is the quantity-zero text.
C4_Scenario2 ==
  quantityInput \in {<<"-","5">>, <<"a","b","c">>} =>
    /\ globalQty = 0
    /\ filteredResults = << >>
    /\ messageShown
    /\ getNoResultsText = QuantityZeroText

C6_UncheckAllNoResults ==
  (variant = "part_000" /\ selectedCategories = << >>) => filteredResults = << >>

catalogIndex(id) ==
  CHOOSE i \in DOMAIN partsCatalog(variant) : partsCatalog(variant)[i].id = id

\* the search term, trimmed and lower-cased
searchKey == toLowerCase(trim(searchTerm))

\* C8 (both predicates): every row of filteredResults has its category in
\* selectedCategories when selectedCategories is non-empty and, when the
\* normalized search term is non-empty, has the term as a substring of its
\* lower-cased name, id or category.
C8_RowsSatisfyBothPredicates ==
  \A i \in DOMAIN filteredResults :
    LET row == filteredResults[i]
    IN  /\ selectedCategories # << >> =>
              row.category \in Range(selectedCategories)
        /\ searchKey # << >> =>
              \E field \in {row.name, row.id, row.category} :
                 includes(toLowerCase(field), searchKey)

\* C8 witness: a partial category selection and a search term are both in
\* force; the parts that satisfy only one of the two are left out.
C8_Witness ==
  /\ searchTerm = <<"S","d">>
  /\ selectedCategories = << Memory, Storage >>
  /\ globalQty = 50
  /\ Len(filteredResults) = 2

\* C10 (stable output order): the rows of filteredResults appear in the same
\* relative order as their parts appear in partsCatalog, with no part
\* repeated, whatever the order in which categories were checked.
C10_StableOrder ==
  /\ \A i \in DOMAIN filteredResults :
       \E k \in DOMAIN partsCatalog(variant) :
          partsCatalog(variant)[k].id = filteredResults[i].id
  /\ \A i, j \in DOMAIN filteredResults :
       i < j => catalogIndex(filteredResults[i].id) < catalogIndex(filteredResults[j].id)

\* C10 witness: the first category of the catalog was unchecked and checked
\* again, so it stands last in selectedCategories, and rows of it and of
\* other categories are listed.
C10_Witness ==
  /\ Len(selectedCategories) >= 3
  /\ selectedCategories[Len(selectedCategories)] = Processor
  /\ selectedCategories[1] = Storage
  /\ Len(filteredResults) >= 4
  /\ filteredResults[1].category = Processor

\* t is s with some of its letters in the other case
isCaseVariationOf(t, s) ==
  /\ Len(t) = Len(s)
  /\ \A i \in DOMAIN s : t[i] \in { s[i], toLowerChar(s[i]), toUpperChar(s[i]) }

\* t is a case variation of a substring of field
isSubstringVariation(t, field) ==
  \E i \in 1..(Len(field) - Len(t) + 1) :
     isCaseVariationOf(t, SubSeq(field, i, i + Len(t) - 1))

\* the search term is a case variation of a substring of a field of part
termTakenFrom(part) ==
  \E field \in { part.name, part.id, part.category } :
     isSubstringVariation(searchTerm, field)

passesCategoryFilter(part) ==
  selectedCategories = << >> \/ part.category \in Range(selectedCategories)

isListed(part) == \E i \in DOMAIN filteredResults : filteredResults[i].id = part.id

\* C7 as claimed (substring search): for every catalog part p and every
\* search term that is a case variation of a substring of p.name, p.id or
\* p.category, p is in filteredResults whenever p's category passes the
\* category filter.
C7_SubstringSearch_Claimed ==
  \A k \in DOMAIN partsCatalog(variant) :
    LET part == partsCatalog(variant)[k]
    IN  (termTakenFrom(part) /\ passesCategoryFilter(part)) => isListed(part)

\* C7 as amended: for every catalog part p and every search term that is a
\* case variation of a substring of p.name, p.id or p.category, p is in
\* filteredResults whenever p's category passes the category filter and the
\* effective quantity is not 0.
C7_SubstringSearch ==
  \A k \in DOMAIN partsCatalog(variant) :
    LET part == partsCatalog(variant)[k]
    IN  (termTakenFrom(part) /\ passesCategoryFilter(part) /\ globalQty # 0)
          => isListed(part)

\* C7 witness: the term "RY" is an upper-case variation of a piece of the
\* category Memory alone; the Memory parts are listed while another
\* category is unchecked.
C7_Witness ==
  /\ searchTerm = <<"R","Y">>
  /\ globalQty = 50
  /\ selectedCategories # << >>
  /\ Storage \notin Range(selectedCategories)
  /\ Len(filteredResults) >= 2
  /\ \A i \in DOMAIN filteredResults : filteredResults[i].category = Memory

\* the terms that differ from s only in letter case and in leading and
\* trailing white space
termVariations(s) ==
  LET core == caseVariations(s) \cup caseVariations(trim(s))
  IN  core \cup { <<" ">> \o t \o <<"\t">> : t \in core }
           \cup { <<"\t"," ">> \o t : t \in core }
           \cup { t \o <<" ">> : t \in core }

isBlank(s) == \A i \in DOMAIN s : s[i] \in WhiteSpace

\* C9 (search-term normalization): a search term that differs from the one
\* in force only in letter case and in leading and trailing white space
\* yields the filteredResults held, and a search term that is empty or all
\* white space lets every part of a category that passes the category
\* filter through.
C9_TermNormalization ==
  /\ \A t \in termVariations(searchTerm) :
        computeFilteredResults(variant, t, globalQty, categoriesToFilter)
          = filteredResults
  /\ (isBlank(searchTerm) /\ globalQty # 0) =>
        \A k \in DOMAIN partsCatalog(variant) :
           passesCategoryFilter(partsCatalog(variant)[k])
             => isListed(partsCatalog(variant)[k])

\* C9 witness: a term with a trailing blank and an upper-case letter is in
\* force after the categories were unchecked and checked again; it selects
\* some parts of the catalog and not all.
C9_Witness ==
  /\ searchTerm = <<"D"," ">>
  /\ globalQty = 50
  /\ Len(selectedCategories) = Len(allCategories(variant))
  /\ ~selectedIsAll
  /\ Len(filteredResults) > 0
  /\ Len(filteredResults) < Len(partsCatalog(variant))

\* the multipliers of the pricing table, in hundredths
claimedMultiplier(category) ==
  CASE category = Processor   -> 105
    [] category = Memory      -> 98
    [] category = Storage     -> 110
    [] category = Network     -> 100
    [] category = PowerSupply -> 100
    [] OTHER                  -> 100

\* the catalog part a row was derived from
partOf(row) == partsCatalog(variant)[catalogIndex(row.id)]

\* C11 (pricing): for every row of filteredResults derived from part p with
\* effective quantity q, adjustedPrice = p.basePrice * multiplier(p.category),
\* lineCost = adjustedPrice * q and calculatedQuantity = q; every row carries
\* the same calculatedQuantity, the current global quantity.
C11_Pricing ==
  \A i \in DOMAIN filteredResults :
    LET row == filteredResults[i]
    IN  /\ row.adjustedPrice = partOf(row).basePrice * claimedMultiplier(partOf(row).category)
        /\ row.lineCost = row.adjustedPrice * globalQty
        /\ row.calculatedQuantity = globalQty
        /\ row.calculatedQuantity = globalQuantity

\* C11 witness: the quantity 3 (typed as "3.7") prices rows of a category
\* whose multiplier is not 1.
C11_Witness ==
  /\ quantityInput = <<"3",".","7">>
  /\ globalQty = 3
  /\ Len(filteredResults) >= 2
  /\ \E i \in DOMAIN filteredResults :
       /\ filteredResults[i].category = Storage
       /\ filteredResults[i].adjustedPrice = 935000
       /\ filteredResults[i].lineCost = 2805000

NoMatchText == "No parts match your selected filters and search term."

\* the "no results" state: the message block is rendered with a text other
\* than the quantity-zero text
noResultsState == messageShown /\ getNoResultsText # QuantityZeroText

\* C13 (the "no results" state): it holds exactly when filteredResults is
\* empty and the effective quantity is not 0; it is distinct from the
\* quantity-zero state, and a message shown in the quantity-zero state is
\* the quantity-zero text, never the text of the "no results" state.
C13_NoResultsState ==
  /\ noResultsState <=> (Len(filteredResults) = 0 /\ globalQty # 0)
  /\ (globalQty = 0 /\ messageShown) => getNoResultsText = QuantityZeroText
  /\ ~(noResultsState /\ globalQty = 0)

\* C13 witness: a search term that matches nothing is in force with a
\* non-zero quantity, and the "no results" message is shown.
C13_Witness ==
  /\ searchTerm = <<"z","z","z","-","n","o","-","m","a","t","c","h">>
  /\ globalQty = 10
  /\ Len(filteredResults) = 0
  /\ noResultsState

\* C14 (quantity-zero message): whenever the effective quantity is 0, the
\* message presented to the user is "Please enter a valid quantity (> 0) to
\* proceed with calculation."
C14_QuantityZeroMessage ==
  globalQty = 0 => (messageShown /\ getNoResultsText = QuantityZeroText)

\* C15 (no-match message): whenever the effective quantity is not 0 and
\* filteredResults is empty, the message presented is exactly "No parts
\* match your selected filters and search term."
C15_NoMatchMessage ==
  (globalQty # 0 /\ Len(filteredResults) = 0) =>
     (messageShown /\ getNoResultsText = NoMatchText)

\* C16 (empty results total): whenever filteredResults is empty, because no
\* part matches or because the quantity is 0, totalProjectCost is exactly
\* the setup fee amount 500.00 if the fee is applied and exactly 0 if not.
C16_EmptyResultsTotal ==
  Len(filteredResults) = 0 =>
     totalProjectCost = (IF usePrevData THEN 5000000 ELSE 0)

\* C16 witness (scenario 5): no part matches the term at quantity 50 and
\* the fee is applied; the total is the fee alone.
C16_Witness ==
  /\ searchTerm = <<"z","z","z","-","n","o","-","m","a","t","c","h">>
  /\ globalQty = 50
  /\ usePrevData
  /\ Len(filteredResults) = 0
  /\ totalProjectCost = 5000000

\* C17 (scenario 1): with quantity 50, the row for part CPU-001 (Processor,
\* basePrice 450.00, multiplier 1.05) has adjustedPrice 472.50 and lineCost
\* 23625.00.
C17_Scenario1 ==
  globalQty = 50 =>
     \A i \in DOMAIN filteredResults :
        filteredResults[i].id = <<"C","P","U","-","0","0","1">> =>
           /\ filteredResults[i].category = Processor
           /\ filteredResults[i].basePrice = 45000
           /\ filteredResults[i].adjustedPrice = 4725000
           /\ filteredResults[i].lineCost = 236250000

\* C17 witness: the term "PROC" has been typed at quantity 50 and the
\* CPU-001 row is listed with those values.
C17_Witness ==
  /\ searchTerm = <<"P","R","O","C">>
  /\ quantityInput = <<"5","0">>
  /\ globalQty = 50
  /\ \E i \in DOMAIN filteredResults :
        /\ filteredResults[i].id = <<"C","P","U","-","0","0","1">>
        /\ filteredResults[i].adjustedPrice = 4725000
        /\ filteredResults[i].lineCost = 236250000

\* the selection state of scenario 3
scenario3 ==
  /\ selectedCategories = << Memory >>
  /\ searchTerm = << >>
  /\ globalQty = 10
  /\ ~usePrevData

basePrices(rows) == [i \in DOMAIN rows |-> rows[i].basePrice]

adjustedPrices(rows) == [i \in DOMAIN rows |-> rows[i].adjustedPrice]

\* C18 as claimed (scenario 3): with selectedCategories = {Memory}, an empty
\* search term, quantity 10 and the fee off, the result is the two Memory
\* parts priced 120.50 and 55.00 and the total is 1719.90.
C18_Scenario3_Claimed ==
  scenario3 =>
     /\ basePrices(filteredResults) = << 12050, 5500 >>
     /\ adjustedPrices(filteredResults) = << 1180900, 539000 >>
     /\ totalProjectCost = 17199000

\* C18 (scenario 3): in that selection state every row is a Memory part
\* priced at 0.98 of its base price; with the catalog of App.tsx the rows are
\* the two Memory parts priced 120.50 and 55.00 and the total is 1719.90,
\* with the catalog of part_000 a third Memory part priced 230.00 is listed
\* as well and the total is 3973.90.
C18_Scenario3 ==
  scenario3 =>
     /\ \A i \in DOMAIN filteredResults : filteredResults[i].category = Memory
     /\ IF variant = "App"
        THEN /\ basePrices(filteredResults) = << 12050, 5500 >>
             /\ adjustedPrices(filteredResults) = << 1180900, 539000 >>
             /\ totalProjectCost = 17199000
        ELSE /\ basePrices(filteredResults) = << 12050, 5500, 23000 >>
             /\ adjustedPrices(filteredResults) = << 1180900, 539000, 2254000 >>
             /\ totalProjectCost = 39739000

\* C18 witness: scenario 3 is reached and Memory rows are listed.
C18_Witness ==
  /\ scenario3
  /\ quantityInput = <<"1","0">>
  /\ Len(filteredResults) >= 2
  /\ totalProjectCost > 0

\* the pipeline computed from scratch over the current selection state
freshCategoriesToFilter == computeCategoriesToFilter(variant, selectedCategories)

freshGlobalQty == computeGlobalQty(globalQuantity)

freshFilteredResults ==
  computeFilteredResults(variant, searchTerm, freshGlobalQty, freshCategoriesToFilter)

freshTotalProjectCost == computeTotalProjectCost(freshFilteredResults, usePrevData)

\* C19 (no stale data): after every event the memoized categoriesToFilter,
\* globalQty, filteredResults and totalProjectCost equal the values a
\* from-scratch computation over the current searchTerm, quantity,
\* selectedCategories and fee switch gives, so the rows and the total
\* depend on the selection state alone.
C19_NoStaleData ==
  /\ categoriesToFilter = freshCategoriesToFilter
  /\ globalQty = freshGlobalQty
  /\ filteredResults = freshFilteredResults
  /\ totalProjectCost = freshTotalProjectCost

\* C19 witness: after several events (term typed, quantity changed, fee
\* switched off, categories unchecked) rows are listed.
C19_Witness ==
  /\ searchTerm = <<"P","R","O","C">>
  /\ globalQty = 10
  /\ ~usePrevData
  /\ ~selectedIsAll
  /\ Len(selectedCategories) = 2
  /\ Len(filteredResults) > 0

\* the multipliers the pricing table holds for a category, whatever the
\* region label of the rule
multipliersOf(category) ==
  { moduleData.pricingCatalog[i].multiplier :
      i \in { j \in DOMAIN moduleData.pricingCatalog :
                moduleData.pricingCatalog[j].category = category } }

\* C12 (multiplier fallback): a part whose category has no rule in the
\* pricing table is listed and priced with multiplier 1.0 (adjustedPrice =
\* basePrice); a part whose category has a rule is priced with that rule's
\* multiplier whatever its region label, so the rows and the total are
\* those of the same table under any other region labels.
C12_MultiplierFallback ==
  /\ \A i \in DOMAIN filteredResults :
       LET row == filteredResults[i]
       IN  /\ multipliersOf(row.category) = {} =>
                row.adjustedPrice = row.basePrice * 100
           /\ \A m \in multipliersOf(row.category) :
                row.adjustedPrice = row.basePrice * m
           /\ row.lineCost = row.adjustedPrice * globalQty
  /\ (globalQty # 0 /\ searchTerm = << >>) =>
       \A k \in DOMAIN moduleData.partsCatalog :
          passesCategoryFilter(moduleData.partsCatalog[k]) =>
             \E i \in DOMAIN filteredResults :
                filteredResults[i].id = moduleData.partsCatalog[k].id
  /\ totalProjectCost = lineCostSum(filteredResults) + setupFee

\* C12 witness: the table has no Memory rule and every rule is labelled
\* "Global"; at quantity 10 a Memory part is listed at its base price and
\* a Storage part at 1.10 of its base price.
C12_Witness ==
  /\ multipliersOf(Memory) = {}
  /\ \A i \in DOMAIN moduleData.pricingCatalog :
        moduleData.pricingCatalog[i].region = "Global"
  /\ globalQty = 10
  /\ \E i \in DOMAIN filteredResults :
        /\ filteredResults[i].category = Memory
        /\ filteredResults[i].adjustedPrice = filteredResults[i].basePrice * 100
  /\ \E i \in DOMAIN filteredResults :
        /\ filteredResults[i].category = Storage
        /\ filteredResults[i].adjustedPrice = filteredResults[i].basePrice * 110

\* C20 (no mutation of the data sources): in every reachable state
\* partsCatalog, pricingCatalog and the setup fee constant hold their
\* initial values, and each result row carries the id, name, category and
\* basePrice of a catalog entry.
C20_DataSourcesUnchanged ==
  /\ moduleData = initialModuleData(variant)
  /\ \A i \in DOMAIN filteredResults :
       \E k \in DOMAIN partsCatalog(variant) :
          LET part == partsCatalog(variant)[k]
              row  == filteredResults[i]
          IN  /\ row.id = part.id
              /\ row.name = part.name
              /\ row.category = part.category
              /\ row.basePrice = part.basePrice

\* C20 witness: several events have run the map callback (a term typed, the
\* quantity changed, a category unchecked) and rows are listed.
C20_Witness ==
  /\ searchTerm = <<"P","R","O","C">>
  /\ quantityInput = <<"3",".","7">>
  /\ ~selectedIsAll
  /\ Len(filteredResults) > 0
  /\ moduleData.partsCatalog = partsCatalog(variant)

\* C21 (no operation outlives its event): once the recomputation for an
\* event has finished, no timer callback remains pending that can later
\* change component state.
C21_NoPendingWork == timers = 0

\* the whole dollars and the hundredths toFixed(2) is to show
shownWhole(amount) ==
  IF amount.fraction >= 9950 THEN amount.whole + 1 ELSE amount.whole

shownHundredths(amount) ==
  IF amount.fraction >= 9950 THEN 0 ELSE (amount.fraction + 50) \div 100

\* three digits of a group below the leading one
threeDigits(n) ==
  << Digits[(n \div 100) + 1], Digits[((n \div 10) % 10) + 1], Digits[(n % 10) + 1] >>

RECURSIVE groupedDigits(_)
\* the digits of n in groups of three from the right, a comma between
\* each two groups
groupedDigits(n) ==
  IF n < 1000 THEN digitsOf(n)
  ELSE groupedDigits(n \div 1000) \o <<",">> \o threeDigits(n % 1000)

currencySign == IF variant = "App" THEN <<"$">> ELSE << >>

commasIn(text) == Cardinality({ i \in DOMAIN text : text[i] = "," })

C23_PulseOnCostChange ==
  [][ (variant = "App" /\ pulseTriggered') =>
         totalProjectCost' # totalProjectCost ]_vars

\* C24 (pulse quiescence, App.tsx): once the user stops producing input
\* events, every scheduled timer firing in the end, isPulsing eventually
\* becomes false and stays false forever.
C24_PulseQuiescence ==
  (<>[][~userEvent]_vars) => <>[](~isPulsing)

\* what the rows listed in the table add up to: the line costs of the part
\* rows and the fee of the fee row
tableRowsSum ==
  lineCostSum(filteredResults) + (IF feeRowShown THEN previousPageValue ELSE 0)

\* C25 as claimed (fee row, part_000): the fee row is shown exactly when
\* the fee is applied and filteredResults is non-empty, the rows listed in
\* the table always add up to the displayed total, and a state with the
\* fee applied and empty results shows a total equal to the fee together
\* with a fee row.
C25_FeeRow_Claimed ==
  variant = "part_000" =>
    /\ feeRowShown <=> (usePrevData /\ Len(filteredResults) > 0)
    /\ tableRowsSum = totalProjectCost
    /\ (usePrevData /\ Len(filteredResults) = 0) =>
          (totalProjectCost = previousPageValue /\ feeRowShown)

\* C25 (fee row, part_000): the fee row is shown exactly when the fee is
\* applied and filteredResults is non-empty; the rows listed add up to the
\* displayed total whenever the results are non-empty or the fee is off;
\* with the fee applied and empty results the total equals the fee while
\* the table lists no row at all.
C25_FeeRow ==
  variant = "part_000" =>
    /\ feeRowShown <=> (usePrevData /\ Len(filteredResults) > 0)
    /\ (Len(filteredResults) > 0 \/ ~usePrevData) =>
          tableRowsSum = totalProjectCost
    /\ (usePrevData /\ Len(filteredResults) = 0) =>
          /\ totalProjectCost = previousPageValue
          /\ ~feeRowShown
          /\ tableRowsSum = 0

\* C25 witness: in part_000 the fee is applied, no part matches the term at
\* quantity 50, the total is the fee and no fee row is shown.
C25_Witness ==
  /\ variant = "part_000"
  /\ usePrevData
  /\ globalQty = 50
  /\ searchTerm = <<"z","z","z","-","n","o","-","m","a","t","c","h">>
  /\ Len(filteredResults) = 0
  /\ totalProjectCost = previousPageValue
  /\ ~feeRowShown

\* C26 (category selection): after any sequence of handleCategoryChange and
\* toggleAllCategories events selectedCategories holds no duplicate and
\* only categories of allCategories; the "Select All" checkbox is checked
\* exactly when every category is selected; and toggling one category
\* twice gives back the same set of selected categories.
C26_CategorySelection ==
  LET all == allCategories(variant)
  IN  /\ \A i, j \in DOMAIN selectedCategories :
            selectedCategories[i] = selectedCategories[j] => i = j
      /\ Range(selectedCategories) \subseteq Range(all)
      /\ selectAllChecked <=> (Range(selectedCategories) = Range(all))
      /\ \A k \in DOMAIN all :
            Range(toggledCategories(
                    toggledCategories(selectedCategories, all[k]), all[k]))
              = Range(selectedCategories)

\* C26 witness: categories were unchecked and checked again in another
\* order; every category is selected and "Select All" is checked.
C26_Witness ==
  /\ ~selectedIsAll
  /\ selectedCategories # allCategories(variant)
  /\ selectAllChecked
  /\ Range(selectedCategories) = Range(allCategories(variant))

\* C27 (fee toggle): a step that toggles the setup fee changes
\* totalProjectCost by exactly the fee amount (+500.00 when turned on,
\* -500.00 when turned off) and leaves filteredResults, searchTerm, the
\* quantity and selectedCategories unchanged, so that toggling it twice
\* restores the previous total.
C27_FeeToggle ==
  [][ usePrevData' # usePrevData =>
        /\ totalProjectCost' =
             totalProjectCost + (IF usePrevData' THEN 5000000 ELSE 0 - 5000000)
        /\ UNCHANGED << filteredResults, searchTerm, globalQuantity, globalQty,
                        selectedCategories, categoriesToFilter >> ]_vars

\* C27 witness: the fee, applied at mount, has been switched off while
\* rows are listed for a typed term; the total is the line costs alone.
C27_Witness ==
  /\ ~usePrevData
  /\ searchTerm = <<"P","R","O","C">>
  /\ globalQty = 10
  /\ Len(filteredResults) > 0
  /\ totalProjectCost = lineCostSum(filteredResults)

\* C28 (the two variants agree): run side by side over the same catalog
\* and pricing table and fed the same events, the component of App.tsx and
\* the component of part_000 hold identical filteredResults and identical
\* totalProjectCost in every state; the total of App.tsx is the one of the
\* component without isPulsing, whatever isPulsing and the timers did.
C28_VariantsAgree ==
  twin.mounted =>
    /\ variant = "App"
    /\ filteredResults = twin.filteredResults
    /\ totalProjectCost = twin.totalProjectCost
    /\ globalQty = twin.globalQty
    /\ categoriesToFilter = twin.categoriesToFilter

\* C28 witness: after a typed term, a quantity, the fee switched off, a
\* category unchecked and a timer firing, both components list the same
\* rows.
C28_Witness ==
  /\ twin.mounted
  /\ pulseTriggered
  /\ searchTerm = <<" ","S","s","D","\t">>
  /\ globalQty = 10
  /\ ~usePrevData
  /\ ~selectedIsAll
  /\ Len(filteredResults) > 0
  /\ twin.filteredResults = filteredResults

====
